---- MODULE Spec2Model ----
(***************************************************************************)
(* State-machine model of citation_workflow.py (class CitationWorkflow).   *)
(*                                                                         *)
(* The document (README.md) is a sequence of lines.  A line is a record    *)
(*   [kind, raw, badge]                                                    *)
(* kind = "entry"   : the line starts with the emphasis markup **raw**     *)
(*                    followed (after optional blanks) by "[", the shape   *)
(*                    the extraction pattern of extract_titles_from_md     *)
(*                    recognises;                                          *)
(* kind = "mention" : the line holds **raw** not followed by "[";          *)
(* badge            : the integer n of a text "citation-n-blue" that       *)
(*                    follows the markup on the line, or NoBadge.          *)
(* Every markup sits on a line of its own, so the lazy capture of the      *)
(* extraction pattern never spans two markups.                             *)
(*                                                                         *)
(* The store (citations.json, and the dict held in memory) is a sequence   *)
(* of records [key, title, citations, last_updated] with distinct keys:    *)
(* a Python dict in insertion order.  Timestamps are integers in the       *)
(* order of the strings they stand for: hours since the epoch for a        *)
(* well-formed timestamp, Malformed for a string strptime rejects (the     *)
(* empty string, which sorts first), Missing for an absent field.          *)
(***************************************************************************)
EXTENDS Integers, Sequences, FiniteSets, TLC

\* ---------------------------------------------------------------- bounds
MaxLines == 2       \* lines of the initial document
MaxRecords == 2     \* records of the initial persisted store
MaxCands == 2       \* candidates in one result set of the lookup service
MaxRuns == 2        \* runs of the workflow in a repeated-run scenario
MaxClock == 72      \* last hour the clock reaches

\* ------------------------------------------------------ program constants
api_delay == 1
skip_recent_hours == 24
retry_limit == 3
MinTitleLen == 10
Epoch == 0

\* the clock, in hours, when the first run starts: two freshness windows after the epoch
StartClock == 2 * skip_recent_hours

\* ------------------------------------------------------ encodings
Malformed == -1
Missing == -2
NoBadge == -1000
NoCount == -1
NegCount == -3      \* a citationCount that the badge pattern \d+ does not match
NoTitle == "<no title>"

\* ------------------------------------------------------ strings
Title1 == "Paper Alpha"
Title2 == "Paper Bravo"
PaddedTitle2 == " Paper Bravo "
ShortTitle == "Short note"
BracketTitle == "[Paper Note]"
OverrideTitle == "Paper Alpha II"

\* str.strip()
Strip(s) == IF s = PaddedTitle2 THEN Title2 ELSE s

\* str.startswith('[')
StartsWithBracket(s) == s = BracketTitle

\* str.lower()
Lower(s) ==
    CASE s \in {"Paper Alpha", "PAPER ALPHA", "paper alpha"} -> "paper alpha"
      [] s \in {"Paper Bravo", "PAPER BRAVO", "paper bravo"} -> "paper bravo"
      [] s \in {"Paper Alpha II", "PAPER ALPHA II", "paper alpha ii"} -> "paper alpha ii"
      [] OTHER -> s

\* ------------------------------------------------------ Python dict, in insertion order
Keys(d) == {d[i].key : i \in 1..Len(d)}

HasKey(d, k) == \E i \in 1..Len(d) : d[i].key = k

GetItem(d, k) == d[CHOOSE i \in 1..Len(d) : d[i].key = k]

\* d[k] = rec : an existing key keeps its position, a new key goes last
SetItem(d, k, rec) ==
    IF HasKey(d, k)
    THEN [i \in 1..Len(d) |-> IF d[i].key = k THEN rec ELSE d[i]]
    ELSE Append(d, rec)

SeqMin(S) == CHOOSE x \in S : \A y \in S : x <= y

\* ------------------------------------------------------ extract_titles_from_md
\* re.findall(r'\*\*(.*?)\*\*\s*\[', content): the captures, in document order
FindAllTitles(content) ==
    LET F[i \in 0..Len(content)] ==
            IF i = 0 THEN << >>
            ELSE IF content[i].kind = "entry"
                 THEN Append(F[i - 1], content[i].raw)
                 ELSE F[i - 1]
    IN F[Len(content)]

\* [title.strip() for title in titles if not title.startswith('[') and len(title.strip()) > 10]
CleanTitles(titles) ==
    LET F[i \in 0..Len(titles)] ==
            IF i = 0 THEN << >>
            ELSE IF ~StartsWithBracket(titles[i]) /\ Len(Strip(titles[i])) > MinTitleLen
                 THEN Append(F[i - 1], Strip(titles[i]))
                 ELSE F[i - 1]
    IN F[Len(titles)]

extract_titles_from_md(content) == CleanTitles(FindAllTitles(content))

\* ------------------------------------------------------ sync_papers
\* variant of NewPaper: the new record is stamped with a present-day time
NewPaperLate(title) ==
    [key |-> title, title |-> title, citations |-> 0, last_updated |-> StartClock]

\* the record of a title that is new to the store
NewPaper(title) ==
    [key |-> title, title |-> title, citations |-> 0, last_updated |-> Epoch]

\* variant of KeepPaper: the old record is replaced by a fresh one
KeepPaperReset(old, title, current_date) ==
    [key |-> title, title |-> title, citations |-> 0, last_updated |-> Epoch]

\* variant of KeepPaper: the old record is re-stamped with current_date
KeepPaperTouch(old, title, current_date) ==
    [GetItem(old, title) EXCEPT !.last_updated = current_date]

\* the record of a title the old store already holds
KeepPaper(old, title, current_date) == GetItem(old, title)

\* variant of SyncLoop: new_citations starts from the old papers, not from empty
SyncLoopKeepAll(md_titles, old, current_date) ==
    LET F[i \in 0..Len(md_titles)] ==
            IF i = 0 THEN old
            ELSE LET title == md_titles[i]
                 IN IF HasKey(F[i - 1], title)
                    THEN F[i - 1]
                    ELSE Append(F[i - 1], [key |-> title, title |-> title, citations |-> 0,
                                           last_updated |-> Epoch])
    IN F[Len(md_titles)]

\* the loop over md_titles that builds new_citations
SyncLoop(md_titles, old, current_date) ==
    LET F[i \in 0..Len(md_titles)] ==
            IF i = 0 THEN << >>
            ELSE LET title == md_titles[i]
                 IN SetItem(F[i - 1], title,
                            IF HasKey(old, title)
                            THEN KeepPaper(old, title, current_date)
                            ELSE NewPaper(title))
    IN F[Len(md_titles)]

\* removed_papers = old_papers - set(md_titles)
RemovedPapers(old, md_titles) == Keys(old) \ {md_titles[i] : i \in 1..Len(md_titles)}

\* ------------------------------------------------------ get_citations: the ordering
\* info.get("last_updated", "1970-01-01-00:00:00")
GetLastUpdated(rec) == IF rec.last_updated = Missing THEN Epoch ELSE rec.last_updated

\* key=lambda x: x["last_updated"]
SortKey(rec) == GetLastUpdated(rec)

\* variant of SortedPapers: the store's own order
UnsortedPapers(d) == d

\* sorted(): stable, ascending by the key
SortedPapers(d) ==
    LET Insert(s, r) ==
            LET n == Cardinality({i \in 1..Len(s) : SortKey(s[i]) <= SortKey(r)})
            IN SubSeq(s, 1, n) \o <<r>> \o SubSeq(s, n + 1, Len(s))
        F[i \in 0..Len(d)] == IF i = 0 THEN << >> ELSE Insert(F[i - 1], d[i])
    IN F[Len(d)]

TitlesOf(d) == [i \in 1..Len(d) |-> d[i].key]

\* ------------------------------------------------------ is_recently_updated
\* datetime.strptime succeeds
Parses(last_updated_str) == last_updated_str >= Epoch

\* variant of is_recently_updated: the boundary counts as recent
is_recently_updated_inclusive(last_updated_str, now) ==
    IF last_updated_str >= Epoch
    THEN now - last_updated_str <= skip_recent_hours
    ELSE FALSE

\* variant of is_recently_updated: a timestamp that parses never expires
is_recently_updated_forever(last_updated_str, now) ==
    Parses(last_updated_str) /\ now >= last_updated_str

is_recently_updated(last_updated_str, now) ==
    IF Parses(last_updated_str)
    THEN now - last_updated_str < skip_recent_hours
    ELSE FALSE

\* ------------------------------------------------------ update_paper_citation: matching
\* the candidate is usable: both fields present
HasFields(paper) == paper.title # NoTitle /\ paper.citationCount # NoCount

\* variant of TitleEquals: case-sensitive comparison
TitleEqualsExact(paper, search_title) == paper.title = search_title

\* paper['title'].lower() == search_title.lower()
TitleEquals(paper, search_title) == Lower(paper.title) = Lower(search_title)

\* index in data of the candidate the loop returns on, 0 when it finds none
FindMatch(data, search_title) ==
    LET hits == {i \in 1..Len(data) : HasFields(data[i]) /\ TitleEquals(data[i], search_title)}
    IN IF hits = {} THEN 0 ELSE SeqMin(hits)

\* ------------------------------------------------------ update_readme_citations
\* the text citation-n-blue matches the badge pattern (\d+) only for n >= 0
IsBadge(line) == line.badge # NoBadge /\ line.badge >= 0

\* positions of **paper_title** in md_content
TitleMatches(md_content, paper_title) ==
    {i \in 1..Len(md_content) :
        md_content[i].kind \in {"entry", "mention"} /\ md_content[i].raw = paper_title}

\* variant of BadgeMatch: the badge is searched from the start of the document
BadgeMatchFromStart(md_content, match_pos) ==
    LET js == {j \in 1..Len(md_content) :
                md_content[j].badge # NoBadge /\ md_content[j].badge >= 0}
    IN IF js = {} \/ match_pos = 0 THEN 0 ELSE SeqMin(js)

\* re.search(badge_pattern, md_content[match_pos:]): the line of the first badge, 0 if none
BadgeMatch(md_content, match_pos) ==
    LET js == {j \in match_pos..Len(md_content) : IsBadge(md_content[j])}
    IN IF js = {} THEN 0 ELSE SeqMin(js)

\* before_match + new_badge + after_match
ReplaceBadge(md_content, pos, citations) ==
    [md_content EXCEPT ![pos].badge = citations]

\* variant of PatchPaper: with several matches the first one is taken
PatchPaperFirstMatch(acc, citations_data, paper_title) ==
    LET matches == {i \in 1..Len(acc.md_content) :
                      /\ acc.md_content[i].kind \in {"entry", "mention"}
                      /\ acc.md_content[i].raw = paper_title}
        js == IF matches = {} THEN {}
              ELSE {j \in SeqMin(matches)..Len(acc.md_content) :
                      acc.md_content[j].badge # NoBadge /\ acc.md_content[j].badge >= 0}
    IN IF js = {}
       THEN [acc EXCEPT !.error_count = @ + 1]
       ELSE [md_content |-> [acc.md_content EXCEPT ![SeqMin(js)].badge =
                                GetItem(citations_data, paper_title).citations],
             updated_count |-> acc.updated_count + 1,
             error_count |-> acc.error_count]

\* one iteration of the loop over papers_to_update
PatchPaper(acc, citations_data, paper_title) ==
    LET matches == TitleMatches(acc.md_content, paper_title)
    IN IF Cardinality(matches) # 1
       THEN [acc EXCEPT !.error_count = @ + 1]
       ELSE LET match_pos == SeqMin(matches)
                badge_pos == BadgeMatch(acc.md_content, match_pos)
            IN IF badge_pos = 0
               THEN [acc EXCEPT !.error_count = @ + 1]
               ELSE [md_content |-> ReplaceBadge(acc.md_content, badge_pos,
                                        GetItem(citations_data, paper_title).citations),
                     updated_count |-> acc.updated_count + 1,
                     error_count |-> acc.error_count]

PatchLoop(original_content, citations_data, papers_to_update) ==
    LET F[i \in 0..Len(papers_to_update)] ==
            IF i = 0
            THEN [md_content |-> original_content, updated_count |-> 0, error_count |-> 0]
            ELSE PatchPaper(F[i - 1], citations_data, papers_to_update[i])
    IN F[Len(papers_to_update)]

\* the titles whose iteration of the loop ended in `error_count += 1; continue`
SkippedPatches(original_content, citations_data, papers_to_update) ==
    LET F[i \in 0..Len(papers_to_update)] ==
            IF i = 0
            THEN [md_content |-> original_content, updated_count |-> 0, error_count |-> 0]
            ELSE PatchPaper(F[i - 1], citations_data, papers_to_update[i])
    IN {papers_to_update[i] : i \in {m \in 1..Len(papers_to_update) :
                                        F[m].error_count > F[m - 1].error_count}}

\* re.sub(badge_pattern, '', text)
StripBadges(content) ==
    [i \in 1..Len(content) |->
        IF IsBadge(content[i]) THEN [content[i] EXCEPT !.badge = NoBadge] ELSE content[i]]

\* variant of IntegrityOk: the check is passed whatever the texts are
IntegrityAlwaysOk(original_content, md_content) == Len(md_content) >= 0

\* the integrity check passes
IntegrityOk(original_content, md_content) ==
    StripBadges(original_content) = StripBadges(md_content)


\* ------------------------------------------------------ state
VARIABLES
    \* the files and the world around the process
    readme,               \* content of README.md
    readme_exists,        \* README.md can be opened
    citations_file,       \* content of citations.json when store_state = "valid"
    store_state,          \* "absent", "valid" or "corrupt" (not JSON)
    store_writable,       \* citations.json can be opened for writing
    clock,                \* datetime.now(), in hours
    limit,                \* most candidates the service returns for one query
    runs_left,            \* runs of the workflow still to be started
    \* the running process
    pc,                   \* position in run_workflow
    run_end,              \* how the last run ended: "", "completed", "interrupted", "exit1"
    citations_data,       \* the dict in memory (citations_data, then sorted_data)
    paper_titles_ordered,
    index,                \* position of the loop of get_citations, from 1
    attempt,              \* loop variable of update_paper_citation
    response,             \* what the last requests.get produced
    ret,                  \* what update_paper_citation returned
    updated_papers,
    skipped_papers,
    skipped_recent,
    updated_count,
    error_count,
    readme_success,
    \* history, written and never read by the program
    start_readme,         \* the document when the run began
    start_time,           \* the clock when the run began
    sync_old,             \* the store sync_papers loaded
    sync_titles,          \* the titles sync_papers extracted
    last_sync,            \* what the latest sync_papers read and saved
    prev_sync,            \* the same of the sync_papers before it
    requested,            \* a request was sent since the latest sync_papers
    start_store,          \* the state of the store file when the run began
    failed_op,            \* the file operation of this run that failed, "" if none
    unpatched,            \* the titles the latest finished patch step left without patch:
                          \* updated in the store, skipped or rejected in the document
    scheduled,            \* the store as sorted at the start of the update pass
    decisions,            \* the freshness check of each record of this run
    lookups,              \* the lookups finished in this run, in order
    nreq,                 \* requests sent for the record being looked up
    query,                \* the query of the last request
    delayed,              \* a delay elapsed between the last request and the one before
    slept,                \* a delay elapsed since the last request
    readme_writes         \* writes of README.md in this run

diskVars == <<readme, readme_exists, citations_file, store_state, store_writable>>
envVars == <<clock, limit, runs_left>>
ctlVars == <<pc, run_end>>
memVars == <<citations_data, paper_titles_ordered, index, attempt, response, ret,
             updated_papers, skipped_papers, skipped_recent, updated_count, error_count,
             readme_success>>
syncHist == <<start_readme, start_time, sync_old, sync_titles, last_sync, prev_sync, requested,
              start_store, failed_op, unpatched>>
lookupHist == <<nreq, query, delayed>>
runHist == <<scheduled, decisions, lookups, lookupHist, slept, readme_writes>>
vars == <<diskVars, envVars, ctlVars, memVars, syncHist, runHist>>

\* ------------------------------------------------------ inputs
InitBadges == {5}
Counts == {7, 12, NegCount}
CandTitles == {"PAPER ALPHA", "paper bravo", OverrideTitle}

Lines ==
    [kind : {"entry"}, raw : {Title1}, badge : {NoBadge} \cup InitBadges]
    \cup [kind : {"entry"}, raw : {Title2, PaddedTitle2, ShortTitle, BracketTitle},
          badge : InitBadges]
    \cup [kind : {"mention"}, raw : {Title1}, badge : {NoBadge}]

DocsUpTo(n) == UNION {[1..k -> Lines] : k \in 0..n}

\* the entries whose title the extractor keeps; a title that is entered twice has
\* its markup twice in the document
RunLines == {l \in Lines : l.kind = "entry" /\ l.raw \notin {ShortTitle, BracketTitle}}

RunDocsUpTo(n) == UNION {[1..k -> RunLines] : k \in 0..n}

\* records a store can hold when a run starts: never looked up, looked up within the
\* window, looked up a full window ago, and records an operator has edited
StoredRecords ==
    {[key |-> Title1, title |-> Title1, citations |-> 0, last_updated |-> Epoch],
     [key |-> Title1, title |-> Title1, citations |-> 5, last_updated |-> StartClock],
     [key |-> Title1, title |-> OverrideTitle, citations |-> 5, last_updated |-> Missing],
     [key |-> Title2, title |-> Title2, citations |-> 0, last_updated |-> Epoch],
     [key |-> Title2, title |-> Title2, citations |-> 5,
      last_updated |-> StartClock - skip_recent_hours],
     [key |-> Title2, title |-> Title2, citations |-> 5, last_updated |-> Malformed]}

Stores ==
    {d \in UNION {[1..n -> StoredRecords] : n \in 0..MaxRecords} :
        \A i, j \in 1..Len(d) : d[i].key = d[j].key => i = j}

\* candidates with a title, with or without a count, and one without either field
Candidates ==
    [title : CandTitles, citationCount : Counts \cup {NoCount}]
    \cup [title : {NoTitle}, citationCount : {NoCount}]

NoResponse == [kind |-> "none", msg429 |-> FALSE, data |-> << >>]
NoReturn == [success |-> FALSE, reason |-> "", new_citation |-> NoCount]
NoSync == [valid |-> FALSE, readme |-> << >>, store |-> << >>, requested |-> FALSE]

\* what one requests.get can produce when the service returns at most n candidates
Responses(n) ==
    {[kind |-> "429", msg429 |-> TRUE, data |-> << >>],
     [kind |-> "http_error", msg429 |-> TRUE, data |-> << >>],
     [kind |-> "http_error", msg429 |-> FALSE, data |-> << >>],
     [kind |-> "request_exception", msg429 |-> FALSE, data |-> << >>]}
    \cup {[kind |-> "ok", msg429 |-> FALSE, data |-> d] :
            d \in UNION {[1..k -> Candidates] : k \in 0..n}}

\* the memory of a process that has not started
FreshLocals ==
    /\ paper_titles_ordered' = << >>
    /\ index' = 0
    /\ attempt' = 0
    /\ response' = NoResponse
    /\ ret' = NoReturn
    /\ updated_papers' = << >>
    /\ skipped_papers' = << >>
    /\ skipped_recent' = << >>
    /\ updated_count' = 0
    /\ error_count' = 0
    /\ readme_success' = FALSE

FreshMemory ==
    /\ citations_data' = << >>
    /\ FreshLocals

FreshLookupHist ==
    /\ nreq' = 0
    /\ query' = ""
    /\ delayed' = TRUE

FreshRunHist ==
    /\ scheduled' = << >>
    /\ decisions' = << >>
    /\ lookups' = << >>
    /\ FreshLookupHist
    /\ slept' = TRUE
    /\ readme_writes' = 0

\* the history of a run that ended early; the order it scheduled and the lookups it
\* made stay on record
EndRunHist ==
    /\ decisions' = << >>
    /\ FreshLookupHist
    /\ slept' = TRUE
    /\ readme_writes' = 0
    /\ UNCHANGED <<scheduled, lookups>>

InitCommon ==
    /\ readme_exists \in BOOLEAN
    /\ store_state \in {"absent", "valid", "corrupt"}
    /\ store_writable \in BOOLEAN
    /\ clock = StartClock
    /\ pc = "idle"
    /\ run_end = ""
    /\ citations_data = << >>
    /\ paper_titles_ordered = << >>
    /\ index = 0
    /\ attempt = 0
    /\ response = NoResponse
    /\ ret = NoReturn
    /\ updated_papers = << >>
    /\ skipped_papers = << >>
    /\ skipped_recent = << >>
    /\ updated_count = 0
    /\ error_count = 0
    /\ readme_success = FALSE
    /\ start_readme = << >>
    /\ start_time = StartClock
    /\ sync_old = << >>
    /\ sync_titles = << >>
    /\ last_sync = NoSync
    /\ prev_sync = NoSync
    /\ requested = FALSE
    /\ start_store = ""
    /\ failed_op = ""
    /\ unpatched = {}
    /\ scheduled = << >>
    /\ decisions = << >>
    /\ lookups = << >>
    /\ nreq = 0
    /\ query = ""
    /\ delayed = TRUE
    /\ slept = TRUE
    /\ readme_writes = 0

\* the stores an earlier run over an earlier version of the document left:
\* keys among the titles of the document, in the order get_citations saves
StoresLeftFor(content) ==
    {d \in Stores :
        /\ \A k \in Keys(d) : k \in Keys(SyncLoop(extract_titles_from_md(content), << >>, 0))
        /\ SortedPapers(d) = d}

\* one run of the workflow over a document of entries the extractor keeps; the
\* service returns one candidate at most
Init ==
    /\ InitCommon
    /\ readme \in RunDocsUpTo(MaxLines)
    /\ readme_exists \/ readme = << >>
    /\ citations_file \in StoresLeftFor(readme)
    /\ store_state = "valid" \/ citations_file = << >>
    /\ limit = 1
    /\ runs_left = 1

\* one run over a document of one line; the service returns up to MaxCands candidates
InitLookup ==
    /\ InitCommon
    /\ readme \in DocsUpTo(1)
    /\ readme_exists \/ readme = << >>
    /\ citations_file \in StoresLeftFor(readme)
    /\ store_state = "valid" \/ citations_file = << >>
    /\ limit = MaxCands
    /\ runs_left = 1

\* repeated reconciliations of any document with any store, edited or left by a run
InitSync ==
    /\ InitCommon
    /\ readme \in DocsUpTo(MaxLines)
    /\ readme_exists \/ readme = << >>
    /\ citations_file \in Stores
    /\ store_state = "valid" \/ citations_file = << >>
    /\ limit = 1
    /\ runs_left = MaxRuns


\* ------------------------------------------------------ run_workflow
\* sys.exit(1), and the exception handler of run_workflow: the process is gone
Exit1 ==
    /\ pc' = "done"
    /\ run_end' = "exit1"
    /\ FreshMemory

\* run_workflow starts; sync_papers runs to its end
SyncPapers ==
    /\ pc \in {"idle", "done"}
    /\ runs_left > 0
    /\ readme_exists /\ store_state # "corrupt" /\ store_writable
    /\ LET md_titles == extract_titles_from_md(readme)
           old == IF store_state = "absent" THEN << >> ELSE citations_file
           new_citations == SyncLoop(md_titles, old, clock)
       IN /\ citations_file' = new_citations
          /\ store_state' = "valid"
          /\ citations_data' = new_citations
          /\ sync_old' = old
          /\ sync_titles' = md_titles
          /\ prev_sync' = last_sync
          /\ last_sync' = [valid |-> TRUE, readme |-> readme, store |-> new_citations,
                           requested |-> requested]
    /\ FreshLocals
    /\ FreshRunHist
    /\ pc' = "schedule"
    /\ run_end' = ""
    /\ runs_left' = runs_left - 1
    /\ start_readme' = readme
    /\ start_time' = clock
    /\ requested' = FALSE
    /\ start_store' = store_state
    /\ failed_op' = ""
    /\ UNCHANGED <<readme, readme_exists, store_writable, clock, limit, unpatched>>

\* run_workflow starts; sync_papers ends in sys.exit(1): the document cannot be read,
\* the store is not valid JSON, or the store cannot be written
SyncPapersFatal ==
    /\ pc \in {"idle", "done"}
    /\ runs_left > 0
    /\ ~readme_exists \/ store_state = "corrupt" \/ ~store_writable
    /\ Exit1
    /\ FreshRunHist
    /\ runs_left' = runs_left - 1
    /\ start_readme' = readme
    /\ start_time' = clock
    /\ start_store' = store_state
    /\ failed_op' = IF ~readme_exists THEN "extract_titles_from_md"
                    ELSE IF store_state = "corrupt" THEN "load_citations"
                    ELSE "save_citations"
    /\ UNCHANGED <<diskVars, clock, limit, sync_old, sync_titles, last_sync, prev_sync,
                   requested, unpatched>>

\* get_citations up to its loop: sort by last_updated, save in that order
Schedule ==
    /\ pc = "schedule"
    /\ LET sorted_data == SortedPapers(citations_data)
       IN IF store_writable
          THEN /\ citations_file' = sorted_data
               /\ store_state' = "valid"
               /\ citations_data' = sorted_data
               /\ paper_titles_ordered' = TitlesOf(sorted_data)
               /\ index' = 1
               /\ scheduled' = sorted_data
               /\ pc' = "loop"
               /\ UNCHANGED <<run_end, attempt, response, ret, updated_papers,
                              skipped_papers, skipped_recent, updated_count, error_count,
                              readme_success>>
          ELSE /\ Exit1
               /\ UNCHANGED <<citations_file, store_state, scheduled>>
    /\ UNCHANGED <<readme, readme_exists, store_writable, envVars, syncHist, decisions,
                   lookups, lookupHist, slept, readme_writes>>

\* the record the loop of get_citations is at
CurTitle == paper_titles_ordered[index]
CurPaper == GetItem(citations_data, CurTitle)

\* variant of search_title: the search key is the key of the record
TitleAsSearchKey == CurTitle

\* search_title = paper_data.get('title', title)
search_title == CurPaper.title

\* the loop finds the record updated within the window: continue
SkipRecent ==
    /\ pc = "loop"
    /\ index <= Len(paper_titles_ordered)
    /\ is_recently_updated(GetLastUpdated(CurPaper), clock)
    /\ skipped_recent' = Append(skipped_recent,
            [title |-> CurTitle, last_updated |-> GetLastUpdated(CurPaper)])
    /\ index' = index + 1
    /\ decisions' = Append(decisions,
            [title |-> CurTitle, last_updated |-> CurPaper.last_updated,
             now |-> clock, skipped |-> TRUE])
    /\ UNCHANGED <<diskVars, envVars, ctlVars, citations_data, paper_titles_ordered,
                   attempt, response, ret, updated_papers, skipped_papers, updated_count,
                   error_count, readme_success, syncHist, scheduled, lookups, lookupHist,
                   slept, readme_writes>>

\* the loop finds the record due and calls update_paper_citation
BeginLookup ==
    /\ pc = "loop"
    /\ index <= Len(paper_titles_ordered)
    /\ ~is_recently_updated(GetLastUpdated(CurPaper), clock)
    /\ attempt' = 0
    /\ pc' = "request"
    /\ decisions' = Append(decisions,
            [title |-> CurTitle, last_updated |-> CurPaper.last_updated,
             now |-> clock, skipped |-> FALSE])
    /\ FreshLookupHist
    /\ UNCHANGED <<diskVars, envVars, run_end, citations_data, paper_titles_ordered, index,
                   response, ret, updated_papers, skipped_papers, skipped_recent,
                   updated_count, error_count, readme_success, syncHist, scheduled,
                   lookups, slept, readme_writes>>

\* variant of Retryable: a result set without a match is retried too
RetryableOrMismatch(r) ==
    \/ r.kind \in {"429", "http_error", "request_exception"}
    \/ (r.kind = "ok" /\ FindMatch(r.data, search_title) = 0)

\* the response is one the loop of update_paper_citation retries on
Retryable(r) == r.kind \in {"429", "http_error", "request_exception"}
                \/ (r.kind = "ok" /\ Len(r.data) = 0)

\* variant of FailureReason: the failure is returned without its reason
FailureReasonNone(r) == ""

\* the reason returned when the last attempt got response r and no candidate was accepted
FailureReason(r) ==
    CASE r.kind = "429" -> "Maximum retry attempts reached"
      [] r.kind = "http_error" /\ r.msg429 -> "Maximum retry attempts reached"
      [] r.kind = "http_error" /\ ~r.msg429 -> "HTTP error"
      [] r.kind = "request_exception" -> "Request exception"
      [] r.kind = "ok" /\ Len(r.data) = 0 -> "API returned empty results"
      [] OTHER -> "Title not exactly matched"

\* requests.get(base_url, params={"query": search_title, ...}) answers r
SendRequest(r) ==
    /\ nreq' = nreq + 1
    /\ query' = search_title
    /\ delayed' = slept
    /\ requested' = TRUE
    /\ UNCHANGED <<start_readme, start_time, sync_old, sync_titles, last_sync, prev_sync,
                   start_store, failed_op, unpatched>>

\* one attempt: the response is retryable and attempt < retry_limit - 1: sleep, continue
AttemptRetry ==
    /\ pc = "request"
    /\ \E r \in Responses(limit) :
        /\ Retryable(r)
        /\ attempt < retry_limit - 1
        /\ SendRequest(r)
        /\ attempt' = attempt + 1
        /\ response' = r
        /\ slept' = TRUE
        /\ UNCHANGED <<diskVars, envVars, ctlVars, citations_data, paper_titles_ordered,
                       index, ret, updated_papers, skipped_papers,
                       skipped_recent, updated_count, error_count, readme_success,
                       scheduled, decisions, lookups, readme_writes>>

\* variant of AttemptFails: the failed lookup stamps the record and saves the store
AttemptFailsStamped ==
    /\ pc = "request"
    /\ \E r \in Responses(limit) :
        /\ \/ Retryable(r) /\ ~(attempt < retry_limit - 1)
           \/ ~Retryable(r) /\ FindMatch(r.data, search_title) = 0
        /\ SendRequest(r)
        /\ response' = r
        /\ ret' = [success |-> FALSE, reason |-> FailureReason(r), new_citation |-> NoCount]
        /\ slept' = FALSE
        /\ pc' = "returned"
        /\ citations_data' = SetItem(citations_data, CurTitle,
                                    [CurPaper EXCEPT !.last_updated = clock])
        /\ citations_file' = citations_data'
        /\ UNCHANGED <<readme, readme_exists, store_state, store_writable, envVars, run_end,
                       paper_titles_ordered, index, attempt, updated_papers,
                       skipped_papers, skipped_recent, updated_count, error_count,
                       readme_success, scheduled, decisions, lookups, readme_writes>>

\* one attempt, the last one made: update_paper_citation returns (False, reason)
AttemptFails ==
    /\ pc = "request"
    /\ \E r \in Responses(limit) :
        /\ \/ Retryable(r) /\ ~(attempt < retry_limit - 1)
           \/ ~Retryable(r) /\ FindMatch(r.data, search_title) = 0
        /\ SendRequest(r)
        /\ response' = r
        /\ ret' = [success |-> FALSE, reason |-> FailureReason(r), new_citation |-> NoCount]
        /\ slept' = FALSE
        /\ pc' = "returned"
        /\ UNCHANGED <<diskVars, envVars, run_end, citations_data, paper_titles_ordered,
                       index, attempt, updated_papers, skipped_papers, skipped_recent,
                       updated_count, error_count, readme_success, scheduled, decisions,
                       lookups, readme_writes>>

\* one attempt, a candidate matches: update the record, save the file,
\* return (True, new_citation)
AttemptSucceeds ==
    /\ pc = "request"
    /\ \E r \in Responses(limit) :
        /\ ~Retryable(r)
        /\ FindMatch(r.data, search_title) # 0
        /\ SendRequest(r)
        /\ response' = r
        /\ slept' = FALSE
        /\ LET paper == r.data[FindMatch(r.data, search_title)]
               new_citation == paper.citationCount
               paper_data == SetItem(citations_data, CurTitle,
                                [CurPaper EXCEPT !.citations = new_citation,
                                                 !.last_updated = clock])
           IN IF store_writable
              THEN /\ citations_data' = paper_data
                   /\ citations_file' = paper_data
                   /\ store_state' = "valid"
                   /\ ret' = [success |-> TRUE, reason |-> "",
                              new_citation |-> new_citation]
                   /\ pc' = "returned"
                   /\ UNCHANGED <<run_end, paper_titles_ordered, index, attempt,
                                  updated_papers, skipped_papers, skipped_recent,
                                  updated_count, error_count, readme_success>>
              ELSE /\ Exit1
                   /\ UNCHANGED <<citations_file, store_state>>
        /\ UNCHANGED <<readme, readme_exists, store_writable, envVars, scheduled,
                       decisions, lookups, readme_writes>>

\* variant of InterRequestDelay: the delay is observed after successful lookups only
DelayAfterSuccessOnly ==
    IF ret.success /\ index < Len(paper_titles_ordered) THEN TRUE ELSE slept

\* if index < len(paper_titles_ordered) - 1: time.sleep(self.api_delay); the value is
\* whether a delay has elapsed since the last request when the loop goes on
InterRequestDelay ==
    IF index < Len(paper_titles_ordered) THEN TRUE ELSE slept

\* variant of AfterLookup: the record is booked as updated whatever the call returned
AfterLookupAlways ==
    /\ pc = "returned"
    /\ updated_papers' = Append(updated_papers,
            [title |-> CurTitle, old |-> CurPaper.citations, new |-> CurPaper.citations,
             change |-> 0, updated_time |-> CurPaper.last_updated])
    /\ UNCHANGED skipped_papers
    /\ slept' = InterRequestDelay
    /\ lookups' = Append(lookups,
            [key |-> CurTitle, success |-> ret.success, new_citation |-> ret.new_citation])
    /\ index' = index + 1
    /\ response' = NoResponse
    /\ ret' = NoReturn
    /\ attempt' = 0
    /\ FreshLookupHist
    /\ pc' = "loop"
    /\ UNCHANGED <<diskVars, envVars, run_end, citations_data, paper_titles_ordered,
                   skipped_recent, updated_count, error_count, readme_success, syncHist,
                   scheduled, decisions, readme_writes>>

\* get_citations after the call: book the outcome, delay, next record
AfterLookup ==
    /\ pc = "returned"
    /\ IF ret.success
       THEN LET new == CurPaper.citations
                old_citations == new - ret.new_citation
            IN /\ updated_papers' = Append(updated_papers,
                        [title |-> CurTitle, old |-> old_citations, new |-> new,
                         change |-> new - old_citations,
                         updated_time |-> CurPaper.last_updated])
               /\ UNCHANGED skipped_papers
       ELSE /\ skipped_papers' = Append(skipped_papers,
                        [title |-> CurTitle, reason |-> ret.reason])
            /\ UNCHANGED updated_papers
    /\ slept' = InterRequestDelay
    /\ lookups' = Append(lookups,
            [key |-> CurTitle, success |-> ret.success, new_citation |-> ret.new_citation])
    /\ index' = index + 1
    /\ response' = NoResponse
    /\ ret' = NoReturn
    /\ attempt' = 0
    /\ FreshLookupHist
    /\ pc' = "loop"
    /\ UNCHANGED <<diskVars, envVars, run_end, citations_data, paper_titles_ordered,
                   skipped_recent, updated_count, error_count, readme_success, syncHist,
                   scheduled, decisions, readme_writes>>

\* variant of Report: the loop is left after its first record
ReportEarly ==
    /\ pc = "loop"
    /\ index > 1
    /\ Len(paper_titles_ordered) > 0
    /\ pc' = "patch"
    /\ UNCHANGED <<diskVars, envVars, run_end, memVars, syncHist, runHist>>

\* the report of get_citations divides by len(paper_titles_ordered)
Report ==
    /\ pc = "loop"
    /\ index > Len(paper_titles_ordered)
    /\ Len(paper_titles_ordered) > 0
    /\ pc' = "patch"
    /\ UNCHANGED <<diskVars, envVars, run_end, memVars, syncHist, runHist>>

\* ZeroDivisionError in the report, caught by run_workflow: sys.exit(1)
ReportFatal ==
    /\ pc = "loop"
    /\ index > Len(paper_titles_ordered)
    /\ Len(paper_titles_ordered) = 0
    /\ Exit1
    /\ UNCHANGED <<diskVars, envVars, syncHist, runHist>>

\* update_readme_citations, then the final report of run_workflow
UpdateReadme ==
    /\ pc = "patch"
    /\ LET papers_to_update == [i \in 1..Len(updated_papers) |-> updated_papers[i].title]
           patched == PatchLoop(readme, citations_data, papers_to_update)
       IN IF updated_papers = << >>
          THEN /\ readme_success' = TRUE
               /\ unpatched' = {}
               /\ UNCHANGED <<readme, updated_count, error_count, readme_writes>>
          ELSE IF ~readme_exists
          THEN /\ readme_success' = FALSE
               /\ UNCHANGED <<readme, updated_count, error_count, readme_writes, unpatched>>
          ELSE /\ updated_count' = patched.updated_count
               /\ error_count' = patched.error_count
               /\ IF IntegrityOk(readme, patched.md_content)
                  THEN /\ readme' = patched.md_content
                       /\ readme_writes' = readme_writes + 1
                       /\ readme_success' = TRUE
                       /\ unpatched' = SkippedPatches(readme, citations_data,
                                                      papers_to_update)
                  ELSE /\ readme_success' = FALSE
                       /\ unpatched' = {papers_to_update[i] :
                                            i \in 1..Len(papers_to_update)}
                       /\ UNCHANGED <<readme, readme_writes>>
    /\ pc' = "done"
    /\ run_end' = "completed"
    /\ UNCHANGED <<readme_exists, citations_file, store_state, store_writable, envVars,
                   citations_data, paper_titles_ordered, index, attempt, response, ret,
                   updated_papers, skipped_papers, skipped_recent, start_readme, start_time,
                   sync_old, sync_titles, last_sync, prev_sync, requested, start_store,
                   failed_op, scheduled, decisions, lookups, lookupHist, slept>>

\* KeyboardInterrupt, caught by run_workflow
Interrupt ==
    /\ pc \in {"schedule", "loop", "request", "returned", "patch"}
    /\ pc' = "done"
    /\ run_end' = "interrupted"
    /\ FreshMemory
    /\ EndRunHist
    /\ UNCHANGED <<diskVars, envVars, syncHist>>

\* KeyboardInterrupt while save_citations is writing: open(..., 'w') has truncated the
\* file and json.dump has not finished
InterruptSave ==
    /\ \/ pc = "schedule"
       \/ /\ pc = "request"
          /\ \E r \in Responses(limit) :
                ~Retryable(r) /\ FindMatch(r.data, search_title) # 0
    /\ store_writable
    /\ citations_file' = << >>
    /\ store_state' = "corrupt"
    /\ pc' = "done"
    /\ run_end' = "interrupted"
    /\ requested' = (requested \/ pc = "request")
    /\ FreshMemory
    /\ EndRunHist
    /\ UNCHANGED <<readme, readme_exists, store_writable, envVars, start_readme,
                   start_time, sync_old, sync_titles, last_sync, prev_sync, start_store,
                   failed_op, unpatched>>

\* save_citations fails while the run is under way (the file can no longer be opened
\* for writing): sys.exit(1), the file is as it was
SaveFails ==
    /\ \/ pc = "schedule"
       \/ /\ pc = "request"
          /\ \E r \in Responses(limit) :
                ~Retryable(r) /\ FindMatch(r.data, search_title) # 0
    /\ store_writable
    /\ store_writable' = FALSE
    /\ requested' = (requested \/ pc = "request")
    /\ failed_op' = "save_citations"
    /\ Exit1
    /\ EndRunHist
    /\ UNCHANGED <<readme, readme_exists, citations_file, store_state, envVars,
                   start_readme, start_time, sync_old, sync_titles, last_sync, prev_sync,
                   start_store, unpatched>>

\* update_readme_citations cannot open the document any more: it returns False and
\* run_workflow ends with its final report
ReadmeUnreadable ==
    /\ pc = "patch"
    /\ updated_papers # << >>
    /\ readme_exists
    /\ readme_exists' = FALSE
    /\ readme_success' = FALSE
    /\ failed_op' = "update_readme_citations"
    /\ pc' = "done"
    /\ run_end' = "completed"
    /\ UNCHANGED <<readme, citations_file, store_state, store_writable, envVars,
                   citations_data, paper_titles_ordered, index, attempt, response, ret,
                   updated_papers, skipped_papers, skipped_recent, updated_count,
                   error_count, start_readme, start_time, sync_old, sync_titles,
                   last_sync, prev_sync, requested, start_store, unpatched, runHist>>

\* one freshness window passes between two runs
Tick ==
    /\ pc = "done"
    /\ runs_left > 0
    /\ clock + skip_recent_hours <= MaxClock
    /\ clock' = clock + skip_recent_hours
    /\ UNCHANGED <<diskVars, limit, runs_left, ctlVars, memVars, syncHist, runHist>>

Next ==
    \/ SyncPapers
    \/ SyncPapersFatal
    \/ Schedule
    \/ SkipRecent
    \/ BeginLookup
    \/ AttemptRetry
    \/ AttemptFails
    \/ AttemptSucceeds
    \/ AfterLookup
    \/ Report
    \/ ReportFatal
    \/ UpdateReadme
    \/ Interrupt
    \/ InterruptSave
    \/ SaveFails
    \/ ReadmeUnreadable

\* runs that are interrupted before the first lookup, with time passing between them
NextSync ==
    \/ SyncPapers
    \/ SyncPapersFatal
    \/ Schedule
    \/ Interrupt
    \/ InterruptSave
    \/ SaveFails
    \/ Tick

Spec == Init /\ [][Next]_vars

SpecLookup == InitLookup /\ [][Next]_vars

SpecSync == InitSync /\ [][NextSync]_vars

\* repeated runs over a document of one line, with time passing between them
InitRerun ==
    /\ InitCommon
    /\ readme \in RunDocsUpTo(1)
    /\ readme_exists \/ readme = << >>
    /\ citations_file \in StoresLeftFor(readme)
    /\ store_state = "valid" \/ citations_file = << >>
    /\ limit = 1
    /\ runs_left = MaxRuns

NextRerun ==
    \/ Next
    \/ Tick

SpecRerun == InitRerun /\ [][NextRerun]_vars

\* a run that is started on schedule: the first one, or one started after the clock
\* has moved on since the run before it began
ScheduledRun ==
    /\ pc = "idle" \/ clock > start_time
    /\ SyncPapers

\* runs on schedule that nobody interrupts and whose files stay as accessible as they
\* were at the start; every step of a run is taken, and the next run comes
NextFair ==
    \/ ScheduledRun
    \/ SyncPapersFatal
    \/ Schedule
    \/ SkipRecent
    \/ BeginLookup
    \/ AttemptRetry
    \/ AttemptFails
    \/ AttemptSucceeds
    \/ AfterLookup
    \/ Report
    \/ ReportFatal
    \/ UpdateReadme
    \/ Tick

SpecFair == InitRerun /\ [][NextFair]_vars /\ WF_vars(NextFair)

\* ------------------------------------------------------ properties of reconciliation
\* sync_papers has just returned: the store on disk is the one it saved
SyncReturned == pc = "schedule"

TitleSet(titles) == {titles[i] : i \in 1..Len(titles)}

\* the titles of the document that the store loaded by sync_papers did not hold
NewTitles == TitleSet(sync_titles) \ Keys(sync_old)

\* C2: reconciliation leaves the record of every title that is in both the old store
\* and the document identical, field for field, in the store it saves
C2_Preservation ==
    SyncReturned =>
        \A k \in Keys(sync_old) \cap TitleSet(extract_titles_from_md(readme)) :
            /\ HasKey(citations_file, k)
            /\ GetItem(citations_file, k) = GetItem(sync_old, k)
            /\ GetItem(citations_data, k) = GetItem(sync_old, k)

\* a record with a count, a search-key override and no timestamp field went through
\* reconciliation
C2_Witness ==
    /\ SyncReturned
    /\ \E k \in Keys(sync_old) \cap TitleSet(sync_titles) :
        /\ GetItem(sync_old, k).citations > 0
        /\ GetItem(sync_old, k).title # k
        /\ GetItem(sync_old, k).last_updated = Missing

\* C3 as stated: the record created for a new title has citations 0 and a timestamp
\* that sorts strictly before the timestamp of every other record
C3_NewEntrySortsFirst ==
    SyncReturned =>
        \A k \in NewTitles :
            LET rec == GetItem(citations_file, k)
            IN /\ rec.citations = 0
               /\ \A j \in 1..Len(citations_file) :
                    citations_file[j].key # k =>
                        rec.last_updated < GetLastUpdated(citations_file[j])

\* C3 amended: the record created for a new title has citations 0 and the epoch
\* sentinel as timestamp, which sorts at or before every well-formed timestamp of
\* another record; it ties with the sentinel of other never-looked-up records
C3_NewEntryDefault ==
    SyncReturned =>
        \A k \in NewTitles :
            LET rec == GetItem(citations_file, k)
            IN /\ rec.citations = 0
               /\ rec.title = k
               /\ rec.last_updated = Epoch
               /\ \A j \in 1..Len(citations_file) :
                    GetLastUpdated(citations_file[j]) # Malformed =>
                        rec.last_updated <= GetLastUpdated(citations_file[j])

\* a new title was added next to a record that carries the time of a lookup
C3_Witness ==
    /\ SyncReturned
    /\ \E k \in NewTitles :
        \E j \in 1..Len(citations_file) :
            /\ citations_file[j].key # k
            /\ citations_file[j].last_updated > Epoch

\* C4: after reconciliation the keys of the saved store are exactly the titles
\* extracted from the document, the orphans of the old store are gone, and the
\* document is as it was when the run began
C4_KeySet ==
    SyncReturned =>
        /\ Keys(citations_file) = TitleSet(extract_titles_from_md(readme))
        /\ Cardinality(Keys(citations_file)) = Len(citations_file)
        /\ \A k \in Keys(sync_old) :
            k \notin TitleSet(extract_titles_from_md(readme)) => ~HasKey(citations_file, k)
        /\ readme = start_readme

\* reconciliation dropped an orphan, added a new title and met an entry that the
\* extractor discards
C4_Witness ==
    /\ SyncReturned
    /\ RemovedPapers(sync_old, sync_titles) # {}
    /\ NewTitles # {}
    /\ Len(FindAllTitles(readme)) > Len(sync_titles)

\* C5: two reconciliations of the same document with no lookup between them save
\* the same store
C5_Idempotence ==
    (/\ prev_sync.valid
     /\ last_sync.valid
     /\ last_sync.readme = prev_sync.readme
     /\ ~last_sync.requested)
        => last_sync.store = prev_sync.store

\* the second reconciliation ran at a later time on a store that the scheduler had
\* saved in another order
C5_Witness ==
    /\ SyncReturned
    /\ prev_sync.valid
    /\ last_sync.valid
    /\ start_time > StartClock
    /\ Len(citations_file) > 1
    /\ sync_old # citations_file
    /\ Keys(sync_old) = Keys(citations_file)

\* ------------------------------------------------------ properties of scheduling
\* the titles update_paper_citation was called for, in call order
LookupOrder ==
    [i \in 1..Len(lookups) |-> lookups[i].key]
        \o (IF pc \in {"request", "returned"} THEN <<CurTitle>> ELSE << >>)

\* the timestamp a record went into the ordering with
ScheduledStamp(k) == GetLastUpdated(GetItem(scheduled, k))

\* the place of a record in the order saved at scheduling time
ScheduledPlace(k) == CHOOSE i \in 1..Len(scheduled) : scheduled[i].key = k

\* C6: when record A is looked up before record B in a run, B's timestamp at
\* scheduling time is not earlier than A's, and the calls follow the order that was
\* computed once at scheduling time
C6_StalenessOrdering ==
    LET order == LookupOrder
    IN \A i, j \in 1..Len(order) :
        i < j =>
            /\ ScheduledStamp(order[i]) <= ScheduledStamp(order[j])
            /\ ScheduledPlace(order[i]) < ScheduledPlace(order[j])

\* two lookups were made against the document's order, the first one succeeded, so
\* that sorting again would put its record last
C6_Witness ==
    /\ Len(lookups) = 2
    /\ lookups[1].success
    /\ ScheduledStamp(lookups[1].key) < ScheduledStamp(lookups[2].key)
    /\ extract_titles_from_md(start_readme)[1] = lookups[2].key

\* the record was updated less than the window before the decision
FreshAt(e) ==
    /\ e.last_updated \notin {Missing, Malformed}
    /\ e.now - e.last_updated < skip_recent_hours

\* C7: a record is skipped exactly when its timestamp is well-formed and less than
\* 24 hours old; a missing or malformed timestamp always makes it due; a skipped
\* record gets no request and stays as it was scheduled
C7_FreshnessPartition ==
    \A i \in 1..Len(decisions) :
        LET e == decisions[i]
            order == LookupOrder
        IN /\ e.skipped <=> FreshAt(e)
           /\ e.skipped =>
                /\ \A j \in 1..Len(order) : order[j] # e.title
                /\ HasKey(citations_file, e.title)
                /\ GetItem(citations_file, e.title) = GetItem(scheduled, e.title)

\* one record was skipped as fresh and one with a missing or malformed timestamp
\* was sent to lookup
C7_Witness ==
    /\ \E i \in 1..Len(decisions) : decisions[i].skipped
    /\ \E i \in 1..Len(decisions) :
        /\ ~decisions[i].skipped
        /\ decisions[i].last_updated \in {Missing, Malformed}

\* ------------------------------------------------------ properties of a whole run
Completed == pc = "done" /\ run_end = "completed"

\* the line of the document the run began with that holds **k**, when there is one
AnchorOf(k) == CHOOSE i \in TitleMatches(start_readme, k) : TRUE

\* **k** occurs exactly once in that document and its line carries an indicator
AnchoredOnce(k) ==
    /\ Cardinality(TitleMatches(start_readme, k)) = 1
    /\ IsBadge(start_readme[AnchorOf(k)])

\* C1 as stated: when a run completes, every record that was due at its start, whose
\* lookup found an exact match with count N and whose title occurs exactly once in
\* the document followed by an indicator, has citations N and a fresh timestamp in
\* the store, its indicator in the document shows N, and the rest of the document
\* is unchanged
C1_EndToEnd ==
    Completed =>
        \A i \in 1..Len(lookups) :
            LET k == lookups[i].key
                N == lookups[i].new_citation
            IN (lookups[i].success /\ HasKey(sync_old, k) /\ AnchoredOnce(k)) =>
                /\ GetItem(citations_file, k).citations = N
                /\ GetItem(citations_file, k).last_updated >= start_time
                /\ Len(readme) = Len(start_readme)
                /\ readme[AnchorOf(k)].badge = N
                /\ \A j \in 1..Len(readme) :
                    \/ readme[j] = start_readme[j]
                    \/ /\ [readme[j] EXCEPT !.badge = NoBadge]
                            = [start_readme[j] EXCEPT !.badge = NoBadge]
                       /\ \E m \in 1..Len(lookups) :
                            /\ lookups[m].success
                            /\ AnchoredOnce(lookups[m].key)
                            /\ AnchorOf(lookups[m].key) = j

\* ------------------------------------------------------ properties of one lookup
\* update_paper_citation has just returned to get_citations
Returned == pc = "returned"

\* the candidates whose title equals the search key, ignoring case
TitleHits(data, q) ==
    {i \in 1..Len(data) : data[i].title # NoTitle /\ Lower(data[i].title) = Lower(q)}

\* those of them that carry a citation count as well
UsableHits(data, q) == {i \in TitleHits(data, q) : data[i].citationCount # NoCount}

\* the last response is a result set, not empty, in which no title equals the key
Mismatch(r, q) == r.kind = "ok" /\ Len(r.data) > 0 /\ TitleHits(r.data, q) = {}

\* C8 as stated: a lookup succeeds exactly when some returned candidate's title
\* equals the search key ignoring case, the count written is that of the first such
\* candidate, and without such a candidate the record fails as not exactly matched
C8_ExactMatchOnly ==
    Returned =>
        LET hits == TitleHits(response.data, query)
        IN /\ ret.success <=> hits # {}
           /\ ret.success =>
                LET n == response.data[SeqMin(hits)].citationCount
                IN /\ ret.new_citation = n
                   /\ CurPaper.citations = n
                   /\ GetItem(citations_file, CurTitle).citations = n
           /\ (hits = {} /\ Len(response.data) > 0) =>
                ret.reason = "Title not exactly matched"

\* C8 amended: a lookup succeeds exactly when some returned candidate that carries
\* both a title and a citation count has a title equal to the search key ignoring
\* case, the count written is that of the first such candidate, and without such a
\* candidate in a non-empty result set the record fails as not exactly matched
C8_ExactMatchAmongUsable ==
    Returned =>
        LET hits == UsableHits(response.data, query)
        IN /\ ret.success <=> hits # {}
           /\ ret.success =>
                LET n == response.data[SeqMin(hits)].citationCount
                IN /\ ret.new_citation = n
                   /\ CurPaper.citations = n
                   /\ GetItem(citations_file, CurTitle).citations = n
           /\ (hits = {} /\ Len(response.data) > 0) =>
                ret.reason = "Title not exactly matched"

\* the first candidate with the right title had no count and was passed over for
\* the second one, whose title equals the search key only when case is ignored
C8_Witness ==
    /\ Returned
    /\ ret.success
    /\ Len(response.data) = 2
    /\ TitleHits(response.data, query) = {1, 2}
    /\ response.data[1].citationCount = NoCount
    /\ response.data[2].title # query

\* C9 as stated: a lookup makes between 1 and retry_limit requests and ends in one
\* outcome; rate-limited to the last attempt it fails with 'max retries exceeded',
\* an empty last result fails with 'empty results', a transport failure on the
\* last attempt fails with a request error
C9_BoundedRetry ==
    Returned =>
        /\ nreq \in 1..retry_limit
        /\ response.kind = "429" =>
            ~ret.success /\ ret.reason = "Maximum retry attempts reached"
        /\ (response.kind = "ok" /\ Len(response.data) = 0) =>
            ~ret.success /\ ret.reason = "API returned empty results"
        /\ response.kind \in {"http_error", "request_exception"} =>
            ~ret.success /\ ret.reason \in {"HTTP error", "Request exception"}

\* C10: a non-empty result set in which no title equals the search key ends the
\* lookup at once with 'title not exactly matched'; no further request is made for
\* the record
C10_NoRetryOnMismatch ==
    /\ (Returned /\ Mismatch(response, query)) =>
            ~ret.success /\ ret.reason = "Title not exactly matched"
    /\ (pc = "request" /\ nreq > 0) => ~Mismatch(response, query)
    /\ LET order == LookupOrder
       IN \A i, j \in 1..Len(order) : i # j => order[i] # order[j]

\* a mismatch came back on the first attempt, with attempts left and two candidates
C10_Witness ==
    /\ Returned
    /\ Mismatch(response, query)
    /\ nreq = 1
    /\ Len(response.data) = 2
    /\ \A i \in 1..2 : HasFields(response.data[i])

\* ------------------------------------------------------ properties of persistence
\* C11 as stated: at every point of the update pass and after a run that crashed or
\* was interrupted in it, the persisted store holds the update of every record whose
\* lookup succeeded earlier in the run; only the in-flight record's update can be lost
C11_WriteThrough ==
    /\ \A i \in 1..Len(lookups) :
        lookups[i].success =>
            /\ store_state = "valid"
            /\ HasKey(citations_file, lookups[i].key)
            /\ GetItem(citations_file, lookups[i].key).citations = lookups[i].new_citation
    /\ (pc = "returned" /\ ret.success) =>
            GetItem(citations_file, CurTitle).citations = ret.new_citation

\* every scheduled record has been skipped as fresh or has had its lookup
AllLookupsDone ==
    \A k \in Keys(scheduled) :
        \/ \E i \in 1..Len(decisions) : decisions[i].title = k /\ decisions[i].skipped
        \/ \E i \in 1..Len(lookups) : lookups[i].key = k

\* the run is in reconciliation or the update pass, or it ended early
BeforePatch ==
    \/ pc \in {"schedule", "loop", "request", "returned", "patch"}
    \/ pc = "done" /\ run_end \in {"interrupted", "exit1"}

\* C12: the document is written at most once per run and only after the lookups of
\* all due records have finished; a run that is interrupted or aborted during
\* reconciliation or the update pass leaves the document as it was at its start
C12_DocumentWrittenOnce ==
    /\ readme_writes <= 1
    /\ BeforePatch => readme = start_readme /\ readme_writes = 0
    /\ (pc # "idle" /\ (readme # start_readme \/ readme_writes > 0)) =>
            Completed /\ AllLookupsDone

\* a run wrote the document after two lookups, of which one failed
C12_Witness ==
    /\ Completed
    /\ readme_writes = 1
    /\ readme # start_readme
    /\ Len(lookups) = 2
    /\ \E i \in 1..2 : ~lookups[i].success

\* ------------------------------------------------------ properties of the patch step
\* the titles whose lookup succeeded in this run
Succeeded == {lookups[i].key : i \in {m \in 1..Len(lookups) : lookups[m].success}}

\* the line whose indicator the patch for k rewrites in the document the run began
\* with, 0 when the patch is refused
PatchTarget(k) ==
    IF Cardinality(TitleMatches(start_readme, k)) = 1
    THEN BadgeMatch(start_readme, AnchorOf(k))
    ELSE 0

\* C13: the patch step works only on behalf of records whose lookup succeeded in this
\* run: every line it changed is the patch target of such a record and shows such a
\* record's count, and when no lookup succeeded the document is neither modified nor
\* written
C13_OnlyUpdatedPatched ==
    (pc \in {"patch", "done"} /\ run_end # "exit1") =>
        /\ \A i \in 1..Len(updated_papers) : updated_papers[i].title \in Succeeded
        /\ Len(readme) = Len(start_readme)
        /\ \A j \in 1..Len(readme) :
            readme[j] # start_readme[j] =>
                /\ \E k \in Succeeded : PatchTarget(k) = j
                /\ \E k \in Succeeded :
                    readme[j].badge = GetItem(citations_file, k).citations
        /\ Succeeded = {} => readme = start_readme /\ readme_writes = 0

\* a run wrote the document and left alone the indicator of a record whose lookup
\* failed, although the store holds another count for it
C13_Witness ==
    /\ Completed
    /\ readme_writes = 1
    /\ readme # start_readme
    /\ \E m \in 1..Len(lookups) :
        /\ ~lookups[m].success
        /\ AnchoredOnce(lookups[m].key)
        /\ readme[AnchorOf(lookups[m].key)].badge
                # GetItem(citations_file, lookups[m].key).citations
        /\ readme[AnchorOf(lookups[m].key)] = start_readme[AnchorOf(lookups[m].key)]

\* the patch step has run over a document it could read
Patched == Completed /\ readme_exists /\ updated_papers # << >>

\* the updated titles whose markup occurs zero times or more than once
Refused == {k \in Succeeded : Cardinality(TitleMatches(start_readme, k)) # 1}

\* the accumulator of the patch loop before its first iteration
PatchStart == [md_content |-> start_readme, updated_count |-> 0, error_count |-> 0]

\* C14: for an updated title whose markup occurs zero times or more than once, the
\* patch is refused and counted as an error, its patch step leaves the document text
\* unchanged, and the store keeps the record's update
C14_PatchSafety ==
    Patched =>
        /\ error_count >= Cardinality(Refused)
        /\ updated_count + error_count = Cardinality(Succeeded)
        /\ \A k \in Refused :
            /\ PatchPaper(PatchStart, citations_data, k)
                    = [PatchStart EXCEPT !.error_count = 1]
            /\ PatchPaper([PatchStart EXCEPT !.md_content = readme], citations_data, k)
                    = [PatchStart EXCEPT !.md_content = readme, !.error_count = 1]
            /\ \A i \in 1..Len(lookups) :
                lookups[i].key = k =>
                    /\ GetItem(citations_file, k).citations = lookups[i].new_citation
                    /\ GetItem(citations_file, k).last_updated = start_time
        /\ \A j \in 1..Len(readme) :
            readme[j] # start_readme[j] => \E k \in Succeeded \ Refused : PatchTarget(k) = j
        /\ Succeeded \subseteq Refused => readme = start_readme

\* the markup of an updated title occurs twice, its patch was refused, and the store
\* holds a count that the document does not show
C14_Witness ==
    /\ Patched
    /\ error_count = 1
    /\ \E k \in Refused :
        /\ Cardinality(TitleMatches(start_readme, k)) = 2
        /\ BadgeMatch(start_readme, 1) # 0
        /\ GetItem(citations_file, k).citations # start_readme[BadgeMatch(start_readme, 1)].badge
    /\ readme = start_readme

\* the count of k that the store on disk holds
StoreCount(k) == GetItem(citations_file, k).citations

\* an updated title whose replacement puts text into the document that is not an
\* indicator: its count is not a string of digits
BreaksText(k) == k \notin Refused /\ PatchTarget(k) # 0 /\ StoreCount(k) < 0

\* C15: when the patched text differs from the original outside the indicators, the
\* document is not written at all, none of the batch's replacements reaches the disk,
\* and the store keeps the new counts; a document that is written differs from the
\* original in well-formed indicators only
C15_IntegrityGate ==
    Patched =>
        /\ (\E k \in Succeeded : BreaksText(k)) =>
                readme = start_readme /\ readme_writes = 0 /\ ~readme_success
        /\ readme_writes = 1 =>
                \A j \in 1..Len(readme) :
                    \/ readme[j] = start_readme[j]
                    \/ /\ readme[j].badge >= 0
                       /\ start_readme[j].badge >= 0
                       /\ [readme[j] EXCEPT !.badge = 0] = [start_readme[j] EXCEPT !.badge = 0]
        /\ \A i \in 1..Len(lookups) :
                lookups[i].success => StoreCount(lookups[i].key) = lookups[i].new_citation

\* one replacement of the batch broke the text and the replacement of another title,
\* well-formed by itself, did not reach the disk either
C15_Witness ==
    /\ Patched
    /\ readme_writes = 0
    /\ readme = start_readme
    /\ \E k \in Succeeded : BreaksText(k)
    /\ \E k \in Succeeded \ Refused :
        /\ PatchTarget(k) # 0
        /\ StoreCount(k) >= 0
        /\ readme[PatchTarget(k)].badge # StoreCount(k)

\* ------------------------------------------------------ properties of failure handling
\* the reasons update_paper_citation returns with a failure
FailureReasons ==
    {"Maximum retry attempts reached", "API returned empty results", "HTTP error",
     "Request exception", "Title not exactly matched"}

\* the run has not ended early
Running == pc \in {"loop", "request", "returned", "patch"} \/ Completed

\* C16: a lookup that ends in rate-limit exhaustion, empty results, a transport error
\* or no exact match is recorded with its reason, the loop goes on to the records
\* scheduled after it, the patch step is reached only when every scheduled record has
\* been decided, and the run never exits with an error because of a failed lookup
C16_FailuresDoNotAbort ==
    /\ Running =>
        \A i \in 1..Len(lookups) :
            ~lookups[i].success =>
                \E j \in 1..Len(skipped_papers) :
                    /\ skipped_papers[j].title = lookups[i].key
                    /\ skipped_papers[j].reason \in FailureReasons
    /\ pc = "loop" => index = Len(decisions) + 1
    /\ (pc = "returned" /\ ~ret.success) =>
            ret.reason \in FailureReasons /\ index <= Len(paper_titles_ordered)
    /\ (pc = "patch" \/ Completed) => AllLookupsDone
    /\ (pc = "done" /\ run_end = "exit1" /\ scheduled # << >>) => ~store_writable

\* the first lookup of a run failed, the lookup of the record after it succeeded and
\* the patch step wrote the document
C16_Witness ==
    /\ Completed
    /\ Len(lookups) = 2
    /\ ~lookups[1].success
    /\ lookups[2].success
    /\ \E j \in 1..Len(skipped_papers) :
        skipped_papers[j].reason = "Maximum retry attempts reached"
    /\ readme_writes = 1

\* ------------------------------------------------------ properties of fatal conditions
\* the file operations whose failure is a fatal condition: reading the document,
\* parsing the store, writing the store
StoreOps == {"load_citations", "save_citations"}
DocumentReads == {"extract_titles_from_md", "update_readme_citations"}

\* a run that met a failure of one of ops ended there with status 1: it is not at a
\* lookup any more, and the document is the one it started with, never written
AbortedOn(ops) ==
    failed_op \in ops =>
        /\ pc = "done"
        /\ run_end = "exit1"
        /\ readme = start_readme
        /\ readme_writes = 0

\* a started run whose store did not parse, or whose store or document could not be
\* opened, has met the failure
FailureMet ==
    /\ (pc # "idle" /\ start_store = "corrupt") =>
            failed_op \in {"extract_titles_from_md", "load_citations"}
    /\ (pc # "idle" /\ ~store_writable) => failed_op # ""
    /\ (pc # "idle" /\ ~readme_exists) => failed_op # ""

\* a run that found no store file went on with the empty store
MissingStoreIsEmpty ==
    /\ start_store = "absent" => failed_op # "load_citations"
    /\ (SyncReturned /\ start_store = "absent") =>
            /\ sync_old = << >>
            /\ citations_file = SyncLoop(sync_titles, << >>, start_time)

\* C17: a run that finds the store structurally invalid, cannot write the store, or
\* cannot read the document ends at that point with a non-zero status, sends no
\* further request and never writes the document; a missing store file is not fatal
\* and gives the empty store
C17_FatalAbort ==
    /\ AbortedOn(StoreOps \cup DocumentReads)
    /\ FailureMet
    /\ MissingStoreIsEmpty
\* ------------------------------------------------------ properties of the search key
\* the record being looked up, as it was when the update pass began
ScheduledPaper == GetItem(scheduled, CurTitle)

\* C18: the query of every request and the comparison with the candidates' titles
\* use the title field of the record, also when it differs from the record's key;
\* the count and the timestamp are written to the entry under the key, the title
\* field stays, and the store gets no entry under the search key
C18_SearchKeyOverride ==
    /\ (pc \in {"request", "returned"} /\ nreq > 0) => query = ScheduledPaper.title
    /\ Returned =>
        LET hits == UsableHits(response.data, ScheduledPaper.title)
            entry == GetItem(citations_file, CurTitle)
        IN /\ ret.success <=> hits # {}
           /\ ret.success =>
                /\ ret.new_citation = response.data[SeqMin(hits)].citationCount
                /\ entry = [key |-> CurTitle, title |-> ScheduledPaper.title,
                            citations |-> ret.new_citation, last_updated |-> clock]
           /\ ~ret.success => citations_file = scheduled
           /\ TitlesOf(citations_file) = TitlesOf(scheduled)
           /\ \A k \in Keys(citations_file) \ {CurTitle} :
                GetItem(citations_file, k) = GetItem(scheduled, k)
           /\ ScheduledPaper.title \notin Keys(scheduled) =>
                ~HasKey(citations_file, ScheduledPaper.title)

\* a record with an override was looked up; the first candidate carried the record's
\* key as title and was passed over for the second one, which carried the override
C18_Witness ==
    /\ Returned
    /\ ret.success
    /\ ScheduledPaper.title # CurTitle
    /\ Len(response.data) = 2
    /\ Lower(response.data[1].title) = Lower(CurTitle)
    /\ response.data[1].citationCount # NoCount
    /\ response.data[2].title = ScheduledPaper.title
    /\ GetItem(citations_file, CurTitle).citations = response.data[2].citationCount
\* ------------------------------------------------------ properties of one patch
\* the document after each iteration of the patch loop over the titles updated in
\* this run: element i is the text the patch of title i starts from
PatchTrail ==
    LET papers == [i \in 1..Len(updated_papers) |-> updated_papers[i].title]
        F[i \in 0..Len(papers)] ==
            IF i = 0 THEN PatchStart
            ELSE PatchPaper(F[i - 1], citations_data, papers[i])
    IN [i \in 1..(Len(papers) + 1) |-> F[i - 1]]

\* the line of the first citation indicator at or after line a, 0 if there is none
FirstIndicatorFrom(content, a) ==
    IF \E j \in a..Len(content) : IsBadge(content[j])
    THEN CHOOSE j \in a..Len(content) :
            IsBadge(content[j]) /\ \A m \in a..(j - 1) : ~IsBadge(content[m])
    ELSE 0

\* C19: the patch of a title whose markup occurs exactly once changes one place of
\* the text, the first citation indicator after the markup, to an indicator with
\* the count the store holds for the title; everything before and after it is as it
\* was, in the same order; a written document is the result of these patches
C19_UniqueAnchorPatch ==
    (pc = "patch" \/ Completed) =>
        LET trail == PatchTrail
        IN /\ \A i \in 1..Len(updated_papers) :
                LET k == updated_papers[i].title
                    before == trail[i].md_content
                    after == trail[i + 1].md_content
                    anchors == TitleMatches(before, k)
                IN Cardinality(anchors) = 1 =>
                    LET b == FirstIndicatorFrom(before, CHOOSE a \in anchors : TRUE)
                    IN /\ Len(after) = Len(before)
                       /\ b = 0 => after = before
                       /\ b # 0 =>
                            /\ after[b] = [before[b] EXCEPT !.badge = StoreCount(k)]
                            /\ \A j \in 1..Len(before) : j # b => after[j] = before[j]
                            /\ trail[i + 1].updated_count = trail[i].updated_count + 1
           /\ (Completed /\ readme_writes = 1) =>
                readme = trail[Len(trail)].md_content

\* the markup of the updated title is on the second line, once; the indicator of the
\* first line is before it and was left alone, the one of the second line was
\* replaced by one with the new count
C19_Witness ==
    /\ Completed
    /\ readme_writes = 1
    /\ Len(readme) = 2
    /\ \E i \in 1..Len(updated_papers) :
        /\ TitleMatches(start_readme, updated_papers[i].title) = {2}
        /\ readme[2].badge = StoreCount(updated_papers[i].title)
    /\ IsBadge(start_readme[1])
    /\ IsBadge(start_readme[2])
    /\ readme[2].badge # start_readme[2].badge
    /\ readme[1] = start_readme[1]
\* ------------------------------------------------------ properties of the request rate
\* C20: in a run, at least one delay of api_delay elapses between any request and the
\* request before it, whether the two are attempts for one record or requests for
\* two records, and whatever the first one returned
C20_RateCeiling ==
    /\ (pc \in {"request", "returned"} /\ nreq > 0) => delayed
    /\ pc = "request" => slept
    /\ (pc = "loop" /\ index <= Len(paper_titles_ordered)) => slept
    /\ api_delay > 0

\* the first record's lookup failed on its last attempt; the requests for the second
\* record, a retry among them, were each sent after a delay
C20_Witness ==
    /\ pc = "returned"
    /\ nreq > 1
    /\ Len(lookups) = 1
    /\ ~lookups[1].success
    /\ requested
    /\ delayed
\* ------------------------------------------------------ properties of repeated runs
\* the run under way was started after an earlier run had ended
LaterRun == pc \notin {"idle", "done"} /\ runs_left < MaxRuns - 1

\* the titles the patch step of the run under way is called with
PapersToUpdate == {updated_papers[i].title : i \in 1..Len(updated_papers)}

\* the titles the run under way has sent a request for
Queried == {lookups[i].key : i \in 1..Len(lookups)}

\* in every run, the patch step is called only with titles looked up in that run
PatchOnlyAfterQuery == pc = "patch" => PapersToUpdate \subseteq Queried

\* C21: a record whose store update succeeded while its document patch was skipped,
\* or rejected with its batch, is among the titles the patch step of a later run is
\* called with, and that run sends no request for it
C21_PatchRetry ==
    (LaterRun /\ pc = "patch") =>
        \A k \in unpatched \cap Keys(citations_data) :
            /\ k \in PapersToUpdate
            /\ k \notin Queried
\* ------------------------------------------------------ properties of the empty document
\* the run read the document and found no title in it
ZeroTitles == pc # "idle" /\ failed_op = "" /\ sync_titles = << >>

\* C22: a run over a readable document without extractable title goes on with the
\* empty store and does not end in an error: no exit with status 1 from the update
\* pass or the patch step
C22_ZeroTitlesComplete ==
    ZeroTitles =>
        /\ Keys(citations_file) = {}
        /\ run_end # "exit1"
\* ------------------------------------------------------ properties of coverage
\* the run under way has skipped record k as fresh, and another run can be started
\* after the freshness window of k has passed
SkippedWithTimeLeft(k) ==
    /\ pc \in {"loop", "request", "returned", "patch"}
    /\ \E i \in 1..Len(decisions) : decisions[i].title = k /\ decisions[i].skipped
    /\ runs_left > 0
    /\ clock + skip_recent_hours <= MaxClock

\* a request for record k has been sent in the run under way
LookedUp(k) == pc \in {"request", "returned"} /\ nreq > 0 /\ CurTitle = k

\* C23: with runs repeated on schedule as time advances and the title staying in the
\* document, a record that a run skips as fresh is looked up by a later run: no
\* record stays skipped for ever
C23_FairCoverage ==
    \A k \in {Title1, Title2} : SkippedWithTimeLeft(k) ~> LookedUp(k)

\* a record that the first run had skipped as fresh, and left as it was, is being
\* looked up by the run started one window later
C23_Witness ==
    /\ LaterRun
    /\ LookedUp(CurTitle)
    /\ GetItem(scheduled, CurTitle).last_updated = StartClock
    /\ GetItem(scheduled, CurTitle).citations \notin Counts
    /\ clock >= StartClock + skip_recent_hours
\* ------------------------------------------------------ properties of failed lookups
\* the store as scheduled, with the update of each successful lookup of this run
StoreAfterLookups ==
    LET F[i \in 0..Len(lookups)] ==
            IF i = 0 THEN scheduled
            ELSE IF lookups[i].success
                 THEN SetItem(F[i - 1], lookups[i].key,
                        [GetItem(F[i - 1], lookups[i].key)
                            EXCEPT !.citations = lookups[i].new_citation,
                                   !.last_updated = start_time])
                 ELSE F[i - 1]
    IN F[Len(lookups)]

\* update_paper_citation has just returned a failure
FailedLookup == Returned /\ ~ret.success

\* C24: a lookup that returns failure, for whatever reason, leaves the record's count
\* and timestamp, every other record, and the store file as they were before the
\* lookup, so that the record is due again in the next run
C24_FailureLeavesStore ==
    /\ pc \in {"loop", "request", "patch"} =>
            citations_file = StoreAfterLookups /\ citations_data = StoreAfterLookups
    /\ FailedLookup =>
            LET before == StoreAfterLookups
            IN /\ citations_file = before
               /\ citations_data = before
               /\ store_state = "valid"
               /\ \A t \in {clock, clock + skip_recent_hours} :
                    ~is_recently_updated(GetLastUpdated(GetItem(citations_file, CurTitle)), t)

\* the lookup of the second record failed after the lookup of the first had changed
\* the store; the second record has a count from an earlier run
C24_Witness ==
    /\ FailedLookup
    /\ Len(lookups) = 1
    /\ lookups[1].success
    /\ GetItem(citations_file, CurTitle).citations > 0
    /\ GetItem(citations_file, lookups[1].key).citations = lookups[1].new_citation
\* ------------------------------------------------------ properties of a committed batch
\* the run wrote the document
Committed == Completed /\ readme_writes = 1

\* the titles whose patch is part of the batch the run committed
PatchedTitles == PapersToUpdate \ unpatched

\* the indicator that follows the anchor of title k shows the store count of k
ShowsOwnCount(k) ==
    LET b == FirstIndicatorFrom(readme, CHOOSE a \in TitleMatches(readme, k) : TRUE)
    IN b # 0 /\ readme[b].badge = StoreCount(k)

\* the entry on line j, if the batch changed it, shows the store count of its own title
EntryKeepsOwnCount(j) ==
    (readme[j] # start_readme[j] /\ HasKey(citations_file, Strip(readme[j].raw))) =>
        readme[j].badge = StoreCount(Strip(readme[j].raw))

\* C25: after a committed batch, the first indicator after the anchor of every
\* patched title shows that title's store count, and no entry of another title has
\* been left with a count that is not its own store count, whatever the order of
\* the patches
C25_OwnCount ==
    Committed =>
        /\ \A k \in PatchedTitles : ShowsOwnCount(k)
        /\ \A j \in 1..Len(readme) : EntryKeepsOwnCount(j)
====
